---- MODULE Spec2Model ----
(***************************************************************************)
(* Retrieval engine of the clinical-notes RAG backend: chunk_text,         *)
(* cosine_similarity, the Redis-backed vector store (load, upload, delete, *)
(* clear, count) and the brute-force similarity search.                    *)
(*                                                                         *)
(* Redis is modelled as one flat keyspace `db` (key string -> hash or set) *)
(* and every handler as a sequence of steps, one per Redis round trip.     *)
(* Text is a sequence of one-character strings.  Similarities are exact    *)
(* reals, kept as the signed square of the cosine, a fraction [n, d].      *)
(***************************************************************************)
EXTENDS Integers, Sequences, FiniteSets, TLC

VARIABLES db, pc, loc, ret, lastOp, nops

vars == <<db, pc, loc, ret, lastOp, nops>>

(***************************************************************************)
(* Bounds of the model.                                                    *)
(***************************************************************************)
MaxTextLen == 4
MaxChunkSize == 4
MaxOps == 3
MaxK == 2
MaxComponent == 2

(***************************************************************************)
(* Settings (core/config.py).  CHUNK_SIZE and CHUNK_OVERLAP are the        *)
(* configured defaults 1000 and 200 scaled down to the text lengths the    *)
(* model enumerates; they keep 0 < CHUNK_OVERLAP < CHUNK_SIZE.             *)
(***************************************************************************)
CHUNK_SIZE == 3
CHUNK_OVERLAP == 1
DEFAULT_TOP_K == 4

Procs == {1, 2}
Chars == {"a", "b", " "}
Whitespace == {" "}

Min(a, b) == IF a <= b THEN a ELSE b

\* All texts of length at most n over Chars.
TextsUpTo(n) == UNION {[1..m -> Chars] : m \in 0..n}

(***************************************************************************)
(* Python string primitives used by chunk_text.                            *)
(***************************************************************************)
\* Variant of Slice that loses the last character of the window.
Slice_off(t, i, j) == SubSeq(t, i + 1, Min(j, Len(t)) - 1)

\* text[i:j] for 0 <= i <= j: 0-based, end-exclusive, clipped to the text.
Slice(t, i, j) == SubSeq(t, i + 1, Min(j, Len(t)))

\* str.strip(): the text without its leading and trailing whitespace (of the
\* whitespace characters, the model's alphabet has the space).
Strip(t) ==
    LET keep == {i \in 1..Len(t) : t[i] \notin Whitespace}
    IN  IF keep = {} THEN <<>>
        ELSE SubSeq(t, CHOOSE i \in keep : \A j \in keep : i <= j,
                       CHOOSE i \in keep : \A j \in keep : i >= j)

\* Variant of PyRange whose stride is one too long.
RECURSIVE PyRange_stride(_, _, _)
PyRange_stride(start, stop, step) ==
    IF step > 0 /\ start < stop
    THEN <<start>> \o PyRange_stride(start + step + 1, stop, step + 1)
    ELSE <<>>

\* list(range(start, stop, step)) for step # 0.
RECURSIVE PyRange(_, _, _)
PyRange(start, stop, step) ==
    IF step > 0 /\ start < stop
    THEN <<start>> \o PyRange(start + step, stop, step)
    ELSE <<>>

(***************************************************************************)
(* chunk_text (rag/retriever.py:55-75).  A size or overlap of 0 stands for *)
(* a falsy argument, which `or` replaces by the configured default.        *)
(***************************************************************************)
\* Variant of chunk_text that keeps the blank windows.
chunk_text_nostrip(text, chunk_size, chunk_overlap) ==
    LET cs == IF chunk_size = 0 THEN CHUNK_SIZE ELSE chunk_size
        co == IF chunk_overlap = 0 THEN CHUNK_OVERLAP ELSE chunk_overlap
        starts == PyRange(0, Len(text), cs - co)
    IN  [n \in 1..Len(starts) |-> Slice(text, starts[n], starts[n] + cs)]

chunk_text(text, chunk_size, chunk_overlap) ==
    LET cs == IF chunk_size = 0 THEN CHUNK_SIZE ELSE chunk_size
        co == IF chunk_overlap = 0 THEN CHUNK_OVERLAP ELSE chunk_overlap
        starts == PyRange(0, Len(text), cs - co)
        windows == [n \in 1..Len(starts) |-> Slice(text, starts[n], starts[n] + cs)]
    IN  SelectSeq(windows, LAMBDA w : Strip(w) # <<>>)

(***************************************************************************)
(* Redis commands on the keyspace.  A value is a hash (fields) or a set    *)
(* (members).  The keys the program hashes ("doc:<i>", "<id>:chunk:<i>")   *)
(* end in a digit and the keys it keeps sets under ("documents",           *)
(* "doc:<id>:chunks") end in "s", so HSET and SADD never meet a value of   *)
(* the other type.  Redis removes a set when its last member is removed.   *)
(***************************************************************************)
Hash(f) == [type |-> "hash", fields |-> f, members |-> {}]
SetOf(m) == [type |-> "set", fields |-> <<>>, members |-> m]

Exists(d, key) == key \in DOMAIN d

Del(d, keys) == [k \in DOMAIN d \ keys |-> d[k]]

Put(d, key, v) == [k \in DOMAIN d \cup {key} |-> IF k = key THEN v ELSE d[k]]

HSet(d, key, mapping) ==
    LET old == IF Exists(d, key) THEN d[key].fields ELSE <<>>
        new == [f \in DOMAIN old \cup DOMAIN mapping |->
                    IF f \in DOMAIN mapping THEN mapping[f] ELSE old[f]]
    IN  Put(d, key, Hash(new))

SMembers(d, key) == IF Exists(d, key) THEN d[key].members ELSE {}

SCard(d, key) == Cardinality(SMembers(d, key))

\* Variant of SAdd that replaces the set by the one member.
SAdd_replace(d, key, member) == Put(d, key, SetOf({member}))

SAdd(d, key, member) == Put(d, key, SetOf(SMembers(d, key) \cup {member}))

SRem(d, key, member) ==
    LET left == SMembers(d, key) \ {member}
    IN  IF ~Exists(d, key) THEN d
        ELSE IF left = {} THEN Del(d, {key})
        ELSE Put(d, key, SetOf(left))

\* HGETALL: the fields of a hash, none for an absent key; a key of another type
\* makes Redis answer WRONGTYPE, which redis-py raises.
HGetAllRaises(d, key) == Exists(d, key) /\ d[key].type # "hash"
HGetAll(d, key) == IF Exists(d, key) THEN d[key].fields ELSE <<>>

REGISTRY == "documents"
DocChunksKey(document_id) == "doc:" \o document_id \o ":chunks"
CorpusKey(idx) == "doc:" \o ToString(idx)
ChunkKey(document_id, idx) == document_id \o ":chunk:" \o ToString(idx)

(***************************************************************************)
(* The embedding service (get_embeddings, rag/retriever.py:30-53) is an    *)
(* external model: a deterministic function of the text, here the counts   *)
(* of "a" and of "b".  Whether a call fails is chosen at the call.         *)
(* json.dumps / json.loads of a list of floats round-trips exactly; a      *)
(* field that is not JSON makes json.loads raise.                          *)
(***************************************************************************)
Count(t, c) == Cardinality({i \in 1..Len(t) : t[i] = c})
get_embeddings(text) == <<Count(text, "a"), Count(text, "b")>>

JsonDumps(v) == <<"json", v>>
JsonLoadsRaises(s) == s[1] # "json"
JsonLoads(s) == s[2]

(***************************************************************************)
(* cosine_similarity (rag/retriever.py:284-292) in exact arithmetic: the   *)
(* value dot / (|a| |b|) is kept as its signed square n / d with d > 0,    *)
(* which orders as the value does; 0 when either norm is 0.                *)
(***************************************************************************)
RECURSIVE SumTo(_, _)
SumTo(f, n) == IF n = 0 THEN 0 ELSE f[n] + SumTo(f, n - 1)

Dot(a, b) == SumTo([i \in 1..Min(Len(a), Len(b)) |-> a[i] * b[i]], Min(Len(a), Len(b)))
NormSq(a) == SumTo([i \in 1..Len(a) |-> a[i] * a[i]], Len(a))
Abs(x) == IF x < 0 THEN -x ELSE x

\* Variant of cosine_similarity without the test for a zero norm.
cosine_similarity_noguard(a, b) ==
    [n |-> Dot(a, b) * Abs(Dot(a, b)), d |-> NormSq(a) * NormSq(b)]

cosine_similarity(a, b) ==
    IF NormSq(a) = 0 \/ NormSq(b) = 0 THEN [n |-> 0, d |-> 1]
    ELSE [n |-> Dot(a, b) * Abs(Dot(a, b)), d |-> NormSq(a) * NormSq(b)]

\* x >= y on similarities, and the similarity of the number p / q (q > 0).
SimGeq(x, y) == x.n * y.d >= y.n * x.d
SimOf(p, q) == [n |-> p * Abs(p), d |-> q * q]

\* MIN_SIMILARITY_THRESHOLD = 0.3 (core/config.py:36).
MIN_SIMILARITY_THRESHOLD == SimOf(3, 10)

\* list.sort(key=similarity, reverse=True): stable, equal keys keep their order.
RECURSIVE InsertDesc(_, _)
InsertDesc(s, x) ==
    IF s = <<>> THEN <<x>>
    ELSE IF SimGeq(Head(s).similarity, x.similarity)
         THEN <<Head(s)>> \o InsertDesc(Tail(s), x)
         ELSE <<x>> \o s

RECURSIVE SortDesc(_)
SortDesc(s) ==
    IF s = <<>> THEN <<>>
    ELSE InsertDesc(SortDesc(SubSeq(s, 1, Len(s) - 1)), s[Len(s)])

\* get_document_count (rag/retriever.py:252-264).
get_document_count(d) == SCard(d, REGISTRY)

(***************************************************************************)
(* Process-local state.                                                    *)
(***************************************************************************)
NoRet == [op |-> "none"]
NoLoc == [op |-> "none"]

InitCommon ==
    /\ db = <<>>
    /\ pc = [p \in Procs |-> "idle"]
    /\ loc = [p \in Procs |-> NoLoc]
    /\ ret = [p \in Procs |-> NoRet]
    /\ lastOp = "none"
    /\ nops = 0

(***************************************************************************)
(* retrieve_similar_documents (rag/retriever.py:192-250).  k = 0 stands    *)
(* for a falsy k and min_similarity with d = 0 for None; both take the     *)
(* configured default.  A failing query embedding is re-raised.  The keys  *)
(* are scanned in the order the set yields them, which is unspecified:     *)
(* each scan step takes any key not yet scanned.  The step that scans the  *)
(* last key also sorts, truncates and returns.                             *)
(* The fields after, embedded and missing are history: the request that    *)
(* completed before this one, whether the query was embedded, and the      *)
(* registry keys for which HGETALL found no record.                        *)
(***************************************************************************)
NoneSim == [n |-> 0, d |-> 0]
EffK(k) == IF k = 0 THEN DEFAULT_TOP_K ELSE k
EffMin(m) == IF m.d = 0 THEN MIN_SIMILARITY_THRESHOLD ELSE m

\* A request arrives and its handler starts (at most MaxOps requests in a run).
Arrive == nops < MaxOps /\ nops' = nops + 1

Done(p, r) ==
    /\ pc' = [pc EXCEPT ![p] = "idle"]
    /\ loc' = [loc EXCEPT ![p] = NoLoc]
    /\ ret' = [ret EXCEPT ![p] = r]
    /\ lastOp' = r.op

Goto(p, label, l) ==
    /\ pc' = [pc EXCEPT ![p] = label]
    /\ loc' = [loc EXCEPT ![p] = l]
    /\ ret' = [ret EXCEPT ![p] = NoRet]
    /\ UNCHANGED lastOp

RetrieveRet(l, status, value) ==
    [op |-> "retrieve", status |-> status, value |-> value, k |-> l.k,
     min_similarity |-> l.min_similarity, query_embedding |-> l.query_embedding,
     doc_keys |-> l.doc_keys, embedded |-> l.embedded, after |-> l.after,
     missing |-> l.missing]

RetrieveStart(p, query, embed_ok, k, min_similarity) ==
    LET doc_keys == SMembers(db, REGISTRY)
        l == [op |-> "retrieve", k |-> EffK(k), min_similarity |-> EffMin(min_similarity),
              query_embedding |-> get_embeddings(query), doc_keys |-> doc_keys,
              todo |-> doc_keys, similarities |-> <<>>, embedded |-> embed_ok,
              after |-> lastOp, missing |-> {}]
    IN  /\ pc[p] = "idle"
        /\ Arrive
        /\ UNCHANGED db
        /\ IF ~embed_ok THEN Done(p, RetrieveRet(l, "raised", <<>>))
           ELSE IF doc_keys = {} THEN Done(p, RetrieveRet(l, "ok", <<>>))
           ELSE Goto(p, "retrieve_scan", l)

\* The loop body (lines 226-236) for doc_key, without its try: the similarities
\* list after it, or raised when HGETALL (WRONGTYPE), json.loads or the read of
\* doc_data[b"content"] (KeyError) raises.
ScanBody(d, l, doc_key) ==
    LET doc_data == HGetAll(d, doc_key)
        raise == [raised |-> TRUE, similarities |-> l.similarities]
        skip == [raised |-> FALSE, similarities |-> l.similarities]
    IN  IF HGetAllRaises(d, doc_key) THEN raise
        ELSE IF "embedding" \notin DOMAIN doc_data THEN skip
        ELSE IF JsonLoadsRaises(doc_data["embedding"]) THEN raise
        ELSE LET similarity ==
                     cosine_similarity(l.query_embedding, JsonLoads(doc_data["embedding"]))
             IN  IF ~SimGeq(similarity, l.min_similarity) THEN skip
                 ELSE IF "content" \notin DOMAIN doc_data THEN raise
                 ELSE [raised |-> FALSE,
                       similarities |->
                           Append(l.similarities,
                                  [key |-> doc_key, content |-> doc_data["content"],
                                   similarity |-> similarity])]

\* Variant of ScanOne without the try/except around the body.
ScanOne_nocatch(d, l, doc_key) == ScanBody(d, l, doc_key)

\* Variant of ScanOne without the min_similarity filter.
ScanOne_nofilter(d, l, doc_key) ==
    LET body == ScanBody(d, [l EXCEPT !.min_similarity = SimOf(-2, 1)], doc_key)
    IN  IF body.raised THEN [raised |-> FALSE, similarities |-> l.similarities] ELSE body

\* One pass of the loop (lines 224-239): an exception in the body is caught,
\* logged, and the key skipped.
ScanOne(d, l, doc_key) ==
    LET body == ScanBody(d, l, doc_key)
    IN  IF body.raised THEN [raised |-> FALSE, similarities |-> l.similarities] ELSE body

\* Variants of TopK: without the sort, and without the truncation to k.
TopK_nosort(similarities, k) ==
    SubSeq(similarities, 1, Min(k, Len(similarities)))

TopK_notrunc(similarities, k) == SortDesc(similarities)

\* Lines 242-243: sort by similarity, descending, and keep the first k.
TopK(similarities, k) ==
    SubSeq(SortDesc(similarities), 1, Min(k, Len(similarities)))

RetrieveScan(p, doc_key) ==
    /\ pc[p] = "retrieve_scan"
    /\ UNCHANGED nops
    /\ doc_key \in loc[p].todo
    /\ UNCHANGED db
    /\ LET pass == ScanOne(db, loc[p], doc_key)
           l == [loc[p] EXCEPT !.todo = @ \ {doc_key},
                               !.similarities = pass.similarities,
                               !.missing = IF Exists(db, doc_key) THEN @
                                           ELSE @ \cup {doc_key}]
       IN  IF pass.raised THEN Done(p, RetrieveRet(l, "raised", <<>>))
           ELSE IF l.todo = {}
           THEN Done(p, RetrieveRet(l, "ok", TopK(l.similarities, l.k)))
           ELSE Goto(p, "retrieve_scan", l)

(***************************************************************************)
(* clear_all_documents (rag/retriever.py:266-282), behind DELETE           *)
(* /documents/clear: SMEMBERS, one DEL of all the keys read, DEL of the    *)
(* registry.                                                               *)
(***************************************************************************)
ClearSMembers(p) ==
    /\ pc[p] = "idle"
    /\ Arrive
    /\ UNCHANGED db
    /\ Goto(p, "clear_delete", [op |-> "clear", doc_keys |-> SMembers(db, REGISTRY)])

\* Variant of ClearDelete that deletes the registry set first.
ClearDelete_registry(p) ==
    /\ pc[p] = "clear_delete"
    /\ UNCHANGED nops
    /\ db' = Del(db, {REGISTRY})
    /\ Goto(p, "clear_registry", loc[p])

ClearDelete(p) ==
    /\ pc[p] = "clear_delete"
    /\ UNCHANGED nops
    /\ db' = IF loc[p].doc_keys # {} THEN Del(db, loc[p].doc_keys) ELSE db
    /\ Goto(p, "clear_registry", loc[p])

\* Variant of ClearRegistry that leaves the registry set in place.
ClearRegistry_skip(p) ==
    /\ pc[p] = "clear_registry"
    /\ UNCHANGED nops
    /\ UNCHANGED db
    /\ Done(p, [op |-> "clear", status |-> "ok", doc_keys |-> loc[p].doc_keys])

ClearRegistry(p) ==
    /\ pc[p] = "clear_registry"
    /\ UNCHANGED nops
    /\ db' = Del(db, {REGISTRY})
    /\ Done(p, [op |-> "clear", status |-> "ok", doc_keys |-> loc[p].doc_keys])

(***************************************************************************)
(* delete_document (api/routes.py:331-354): EXISTS (404 when absent),      *)
(* SREM from the registry, DEL of the key.  The key is any path segment.   *)
(* The field was_chunk is history: whether the key held a chunk record     *)
(* when the request arrived.                                               *)
(***************************************************************************)
DeleteExists(p, document_key) ==
    LET was_chunk == Exists(db, document_key) /\ db[document_key].type = "hash"
    IN  /\ pc[p] = "idle"
        /\ Arrive
        /\ UNCHANGED db
        /\ IF ~Exists(db, document_key)
           THEN Done(p, [op |-> "delete", status |-> "NotFound", key |-> document_key,
                         was_chunk |-> was_chunk])
           ELSE Goto(p, "delete_srem", [op |-> "delete", key |-> document_key,
                                        was_chunk |-> was_chunk])

DeleteSRem(p) ==
    /\ pc[p] = "delete_srem"
    /\ UNCHANGED nops
    /\ db' = SRem(db, REGISTRY, loc[p].key)
    /\ Goto(p, "delete_del", loc[p])

DeleteDel(p) ==
    /\ pc[p] = "delete_del"
    /\ UNCHANGED nops
    /\ db' = Del(db, {loc[p].key})
    /\ Done(p, [op |-> "delete", status |-> "ok", key |-> loc[p].key,
                was_chunk |-> loc[p].was_chunk])

(***************************************************************************)
(* upload_document_text / upload_document (api/routes.py:172-247) around   *)
(* upload_and_store_document (rag/retriever.py:145-190).  document_id ""   *)
(* stands for an absent id.  Blank content is refused with 400.  Per       *)
(* chunk: embed, HSET, SADD to the registry, SADD to the document's set;   *)
(* an exception in any of them is re-raised and ends the upload with 500.  *)
(* embed_ok = FALSE is an embedding call or an HSET that raises (nothing   *)
(* of the chunk is written), store_ok = FALSE a SADD that raises.  The     *)
(* route then reads the document's set to report chunks_created.           *)
(* The fields auto (the id was generated), stored (chunks this call wrote  *)
(* completely), failed (the chunk whose write raised) and repeat (the      *)
(* request before this one was the same upload, and returned) are history. *)
(***************************************************************************)
UploadRet(l, status, chunks_created) ==
    [op |-> "upload", status |-> status, document_id |-> l.document_id,
     chunks_created |-> chunks_created, chunks |-> l.chunks, stored |-> l.idx,
     auto |-> l.auto, failed |-> l.failed, content |-> l.content]

UploadStart(p, content, document_id) ==
    LET existing_docs == SMembers(db, REGISTRY)
        id == IF document_id = "" THEN "doc:" \o ToString(Cardinality(existing_docs))
              ELSE document_id
        l == [op |-> "upload", document_id |-> id, chunks |-> chunk_text(content, 0, 0),
              idx |-> 0, auto |-> (document_id = ""), failed |-> {}, content |-> content,
              repeat |-> /\ document_id # ""
                         /\ ret[p].op = "upload"
                         /\ ret[p].status = "ok"
                         /\ ret[p].document_id = document_id
                         /\ ret[p].content = content]
    IN  /\ pc[p] = "idle"
        /\ Arrive
        /\ UNCHANGED db
        /\ IF Strip(content) = <<>>
           THEN Done(p, [op |-> "upload", status |-> "400", document_id |-> document_id,
                         chunks_created |-> 0, chunks |-> <<>>, stored |-> 0,
                         auto |-> (document_id = ""), failed |-> {},
                         content |-> content])
           ELSE IF l.chunks = <<>> THEN Goto(p, "upload_count", l)
           ELSE Goto(p, "upload_hset", l)

UploadHSet(p, embed_ok) ==
    LET l == loc[p]
        chunk == l.chunks[l.idx + 1]
        chunk_key == ChunkKey(l.document_id, l.idx)
        mapping == [f \in {"content", "embedding", "document_id"} |->
                       CASE f = "content" -> chunk
                         [] f = "embedding" -> JsonDumps(get_embeddings(chunk))
                         [] OTHER -> l.document_id]
    IN  /\ pc[p] = "upload_hset"
        /\ UNCHANGED nops
        /\ IF ~embed_ok
           THEN UNCHANGED db
                /\ Done(p, UploadRet([l EXCEPT !.failed = {l.idx}], "500", 0))
           ELSE db' = HSet(db, chunk_key, mapping) /\ Goto(p, "upload_sadd", l)

UploadSAdd(p, store_ok) ==
    /\ pc[p] = "upload_sadd"
    /\ UNCHANGED nops
    /\ IF ~store_ok
       THEN UNCHANGED db
            /\ Done(p, UploadRet([loc[p] EXCEPT !.failed = {loc[p].idx}], "500", 0))
       ELSE db' = SAdd(db, REGISTRY, ChunkKey(loc[p].document_id, loc[p].idx))
            /\ Goto(p, "upload_sadd_doc", loc[p])

UploadSAddDoc(p, store_ok) ==
    LET l == [loc[p] EXCEPT !.idx = @ + 1]
    IN  /\ pc[p] = "upload_sadd_doc"
        /\ UNCHANGED nops
        /\ IF ~store_ok
           THEN UNCHANGED db
                /\ Done(p, UploadRet([loc[p] EXCEPT !.failed = {loc[p].idx}], "500", 0))
           ELSE db' = SAdd(db, DocChunksKey(loc[p].document_id),
                           ChunkKey(loc[p].document_id, loc[p].idx))
                /\ IF l.idx < Len(l.chunks) THEN Goto(p, "upload_hset", l)
                   ELSE Goto(p, "upload_count", l)

UploadCount(p) ==
    /\ pc[p] = "upload_count"
    /\ UNCHANGED nops
    /\ UNCHANGED db
    /\ Done(p, UploadRet(loc[p], "ok", SCard(db, DocChunksKey(loc[p].document_id))))

(***************************************************************************)
(* load_and_store_documents (rag/retriever.py:77-143).  The file is an     *)
(* input: absent, or present with its content.  A missing file returns     *)
(* before anything else; clear_existing clears the store before the file   *)
(* is read; a blank file returns after that.  Per chunk: embed, HSET, SADD *)
(* to the registry; an exception in any of them is logged and the loop     *)
(* goes on to the next chunk.  embed_ok = FALSE is an embedding call or an *)
(* HSET that raises, store_ok = FALSE a SADD that raises.  Every path      *)
(* through the function ends in a plain return (lines 92, 110, 138):       *)
(* raised is the exception the call ends with, and there is none.          *)
(* The fields stored_keys (keys this call wrote and registered), failed    *)
(* (indices of the chunks whose write raised), prior (what the store held  *)
(* under the current chunk's key before its HSET) and repeat (the request  *)
(* before this one was a load of the same file that stored every chunk)    *)
(* are history.                                                            *)
(***************************************************************************)
\* What the store holds for a key: its record, if any, and its registry entry.
KeyState(d, key) ==
    [record |-> IF Exists(d, key) THEN {d[key]} ELSE {},
     registered |-> key \in SMembers(d, REGISTRY)]

LoadRet(l, status) ==
    [op |-> "load", status |-> status, clear_existing |-> l.clear_existing,
     file |-> l.file, chunks |-> l.chunks, stored_keys |-> l.stored_keys,
     failed |-> l.failed, raised |-> "none"]

\* The function returns: to its caller reload_documents (api/routes.py:279-280),
\* which goes on to count, or as the end of the request.
LoadReturn(p, l, status) ==
    IF l.op = "reload" THEN Goto(p, "reload_count", [l EXCEPT !.load_status = status])
    ELSE Done(p, LoadRet(l, status))

\* Lines 105-114: read the file, return when blank, else chunk it and start storing.
LoadRead(p, l) ==
    IF Strip(l.file.content) = <<>> THEN LoadReturn(p, l, "blank")
    ELSE LET l2 == [l EXCEPT !.chunks = chunk_text(l.file.content, 0, 0)]
         IN  IF l2.chunks = <<>> THEN LoadReturn(p, l2, "ok")
             ELSE Goto(p, "load_hset", l2)

LoadStart(p, file, clear_existing) ==
    LET l == [op |-> "load", file |-> file, clear_existing |-> clear_existing,
              load_status |-> "",
              chunks |-> <<>>, idx |-> 0, stored_keys |-> {}, failed |-> {},
              repeat |-> /\ ~clear_existing
                         /\ ret[p].op = "load"
                         /\ ret[p].status = "ok"
                         /\ ret[p].failed = {}
                         /\ ret[p].file = file,
              prior |-> KeyState(<<>>, CorpusKey(0)),
              doc_keys |-> SMembers(db, REGISTRY)]
    IN  /\ pc[p] = "idle"
        /\ Arrive
        /\ UNCHANGED db
        /\ IF ~file.exists THEN Done(p, LoadRet(l, "missing"))
           ELSE IF clear_existing THEN Goto(p, "load_clear_delete", l)
           ELSE LoadRead(p, l)

LoadClearDelete(p) ==
    /\ pc[p] = "load_clear_delete"
    /\ UNCHANGED nops
    /\ db' = IF loc[p].doc_keys # {} THEN Del(db, loc[p].doc_keys) ELSE db
    /\ Goto(p, "load_clear_registry", loc[p])

LoadClearRegistry(p) ==
    /\ pc[p] = "load_clear_registry"
    /\ UNCHANGED nops
    /\ db' = Del(db, {REGISTRY})
    /\ LoadRead(p, loc[p])

LoadNext(p, l) ==
    IF l.idx < Len(l.chunks) THEN Goto(p, "load_hset", l) ELSE LoadReturn(p, l, "ok")

\* Variant of LoadHSet that stores a chunk whose embedding failed, with a zero
\* vector in place of the embedding.
LoadHSet_placeholder(p, embed_ok) ==
    LET l == loc[p]
        chunk == l.chunks[l.idx + 1]
        mapping == [f \in {"content", "embedding"} |->
                       IF f = "content" THEN chunk
                       ELSE JsonDumps(IF embed_ok THEN get_embeddings(chunk) ELSE <<0, 0>>)]
    IN  /\ pc[p] = "load_hset"
        /\ UNCHANGED nops
        /\ db' = HSet(db, CorpusKey(l.idx), mapping)
        /\ Goto(p, "load_sadd", [l EXCEPT !.prior = KeyState(db, CorpusKey(l.idx)),
                                          !.failed = IF embed_ok THEN @ ELSE @ \cup {l.idx}])

LoadHSet(p, embed_ok) ==
    LET l == loc[p]
        chunk == l.chunks[l.idx + 1]
        mapping == [f \in {"content", "embedding"} |->
                       IF f = "content" THEN chunk ELSE JsonDumps(get_embeddings(chunk))]
    IN  /\ pc[p] = "load_hset"
        /\ UNCHANGED nops
        /\ IF ~embed_ok
           THEN UNCHANGED db
                /\ LoadNext(p, [l EXCEPT !.idx = @ + 1, !.failed = @ \cup {l.idx}])
           ELSE /\ db' = HSet(db, CorpusKey(l.idx), mapping)
                /\ Goto(p, "load_sadd", [l EXCEPT !.prior = KeyState(db, CorpusKey(l.idx))])

LoadSAdd(p, store_ok) ==
    /\ pc[p] = "load_sadd"
    /\ UNCHANGED nops
    /\ IF ~store_ok
       THEN UNCHANGED db
            /\ LoadNext(p, [loc[p] EXCEPT !.idx = @ + 1, !.failed = @ \cup {loc[p].idx}])
       ELSE db' = SAdd(db, REGISTRY, CorpusKey(loc[p].idx))
            /\ LoadNext(p, [loc[p] EXCEPT !.idx = @ + 1,
                                          !.stored_keys = @ \cup {CorpusKey(loc[p].idx)}])

(***************************************************************************)
(* reload_documents (api/routes.py:262-292), behind POST                   *)
(* /documents/reload: 404 when the configured file is absent, else         *)
(* load_and_store_documents(clear_existing=True), then get_document_count  *)
(* for the response.  The configured file is an input, as for a load.      *)
(***************************************************************************)
\* Variant of ReloadStart without the route's own test for the file.
ReloadStart_nocheck(p, file) ==
    LET l == [op |-> "reload", file |-> file, clear_existing |-> TRUE,
              load_status |-> "", chunks |-> <<>>, idx |-> 0, stored_keys |-> {},
              failed |-> {}, repeat |-> FALSE,
              prior |-> KeyState(<<>>, CorpusKey(0)),
              doc_keys |-> SMembers(db, REGISTRY)]
    IN  /\ pc[p] = "idle"
        /\ Arrive
        /\ UNCHANGED db
        /\ IF ~file.exists THEN LoadReturn(p, l, "missing")
           ELSE Goto(p, "load_clear_delete", l)

ReloadStart(p, file) ==
    LET l == [op |-> "reload", file |-> file, clear_existing |-> TRUE,
              load_status |-> "", chunks |-> <<>>, idx |-> 0, stored_keys |-> {},
              failed |-> {}, repeat |-> FALSE,
              prior |-> KeyState(<<>>, CorpusKey(0)),
              doc_keys |-> SMembers(db, REGISTRY)]
    IN  /\ pc[p] = "idle"
        /\ Arrive
        /\ UNCHANGED db
        /\ IF ~file.exists
           THEN Done(p, [op |-> "reload", status |-> "404", document_count |-> 0,
                         file |-> file, stored_keys |-> {}, load_status |-> ""])
           ELSE Goto(p, "load_clear_delete", l)

ReloadCount(p) ==
    /\ pc[p] = "reload_count"
    /\ UNCHANGED nops
    /\ UNCHANGED db
    /\ Done(p, [op |-> "reload", status |-> "ok",
                document_count |-> get_document_count(db), file |-> loc[p].file,
                stored_keys |-> loc[p].stored_keys, load_status |-> loc[p].load_status])

(***************************************************************************)
(* The program: request handlers over the shared store, from an empty      *)
(* store.  Spec runs one handler at a time (each runs to its return before *)
(* the next starts) against a store whose commands succeed; the embedding  *)
(* service can fail on any call.                                           *)
(***************************************************************************)
Contents == {<<"a">>, <<"a", "b", "b">>, <<" ">>}
DocIds == {"", "d1"}
Files == {[exists |-> FALSE, content |-> <<>>]}
             \cup {[exists |-> TRUE, content |-> c] : c \in Contents}
ProbeKeys == {REGISTRY, "doc:9"}
Queries == {<<"a">>, <<"b">>, <<"a", "b">>}
AskQueries == {<<"a">>, <<"a", "b">>}
MinSims == {NoneSim, SimOf(0, 1), SimOf(3, 5), SimOf(99, 100)}

\* build_chain_async and build_chain_stream (rag/chain.py:126-133, 221-228) always
\* pass min_similarity = 0.0; k is the request's, or absent.
Step(p) ==
    \/ ClearSMembers(p)
    \/ ClearDelete(p)
    \/ ClearRegistry(p)
    \/ \E document_key \in DOMAIN db \cup ProbeKeys : DeleteExists(p, document_key)
    \/ DeleteSRem(p)
    \/ DeleteDel(p)
    \/ \E content \in Contents, document_id \in DocIds : UploadStart(p, content, document_id)
    \/ \E embed_ok \in BOOLEAN : UploadHSet(p, embed_ok)
    \/ UploadSAdd(p, TRUE)
    \/ UploadSAddDoc(p, TRUE)
    \/ UploadCount(p)
    \/ \E file \in Files, clear_existing \in BOOLEAN : LoadStart(p, file, clear_existing)
    \/ LoadClearDelete(p)
    \/ LoadClearRegistry(p)
    \/ \E embed_ok \in BOOLEAN : LoadHSet(p, embed_ok)
    \/ LoadSAdd(p, TRUE)
    \/ \E file \in Files : ReloadStart(p, file)
    \/ ReloadCount(p)
    \/ \E query \in AskQueries, embed_ok \in BOOLEAN, k \in 0..MaxK :
          RetrieveStart(p, query, embed_ok, k, SimOf(0, 1))
    \/ \E doc_key \in (IF pc[p] = "retrieve_scan" THEN loc[p].todo ELSE {}) :
          RetrieveScan(p, doc_key)

Init == InitCommon

Next == Step(1)

Spec == Init /\ [][Next]_vars

(***************************************************************************)
(* SpecClearSearch: process 1 loads, uploads and clears, one request at a  *)
(* time, while process 2 searches (retrieve runs in the executor's thread  *)
(* pool, rag/chain.py:126-133); the two interleave at every round trip.    *)
(***************************************************************************)
WriterStep(p) ==
    \/ ClearSMembers(p)
    \/ ClearDelete(p)
    \/ ClearRegistry(p)
    \/ \E content \in Contents, document_id \in DocIds : UploadStart(p, content, document_id)
    \/ \E embed_ok \in BOOLEAN : UploadHSet(p, embed_ok)
    \/ UploadSAdd(p, TRUE)
    \/ UploadSAddDoc(p, TRUE)
    \/ UploadCount(p)
    \/ \E file \in Files : LoadStart(p, file, FALSE)
    \/ \E embed_ok \in BOOLEAN : LoadHSet(p, embed_ok)
    \/ LoadSAdd(p, TRUE)

SearchStep(p) ==
    \/ \E query \in AskQueries, embed_ok \in BOOLEAN, k \in 0..MaxK :
          RetrieveStart(p, query, embed_ok, k, SimOf(0, 1))
    \/ \E doc_key \in (IF pc[p] = "retrieve_scan" THEN loc[p].todo ELSE {}) :
          RetrieveScan(p, doc_key)

NextClearSearch == WriterStep(1) \/ SearchStep(2)

SpecClearSearch == Init /\ [][NextClearSearch]_vars

(***************************************************************************)
(* SpecStoreFail: the handlers that write chunks, one request at a time,   *)
(* against a store whose SADD can raise (a dropped connection, a timeout)  *)
(* after the HSET of the same chunk went through.                          *)
(***************************************************************************)
StoreFailStep(p) ==
    \/ \E content \in Contents, document_id \in DocIds : UploadStart(p, content, document_id)
    \/ \E embed_ok \in BOOLEAN : UploadHSet(p, embed_ok)
    \/ \E store_ok \in BOOLEAN : UploadSAdd(p, store_ok)
    \/ \E store_ok \in BOOLEAN : UploadSAddDoc(p, store_ok)
    \/ UploadCount(p)
    \/ \E file \in Files, clear_existing \in BOOLEAN : LoadStart(p, file, clear_existing)
    \/ LoadClearDelete(p)
    \/ LoadClearRegistry(p)
    \/ \E embed_ok \in BOOLEAN : LoadHSet(p, embed_ok)
    \/ \E store_ok \in BOOLEAN : LoadSAdd(p, store_ok)

NextStoreFail == StoreFailStep(1)

SpecStoreFail == Init /\ [][NextStoreFail]_vars

(***************************************************************************)
(* SpecAutoId: uploads without a document_id and deletes of chunk keys,    *)
(* one request at a time, starting from the store as the upload of the     *)
(* one-chunk text "a" without a document_id into the empty store leaves    *)
(* it.                                                                     *)
(***************************************************************************)
UploadRecord(chunk, document_id) ==
    Hash([f \in {"content", "embedding", "document_id"} |->
             CASE f = "content" -> chunk
               [] f = "embedding" -> JsonDumps(get_embeddings(chunk))
               [] OTHER -> document_id])

StoreAfterUpload ==
    LET chunk_key == ChunkKey("doc:0", 0)
        d1 == Put(<<>>, chunk_key, UploadRecord(<<"a">>, "doc:0"))
        d2 == SAdd(d1, REGISTRY, chunk_key)
    IN  SAdd(d2, DocChunksKey("doc:0"), chunk_key)

InitAutoId ==
    /\ db = StoreAfterUpload
    /\ pc = [p \in Procs |-> "idle"]
    /\ loc = [p \in Procs |-> NoLoc]
    /\ ret = [p \in Procs |-> NoRet]
    /\ lastOp = "upload"
    /\ nops = 0

AutoIdStep(p) ==
    \/ \E content \in Contents : UploadStart(p, content, "")
    \/ \E embed_ok \in BOOLEAN : UploadHSet(p, embed_ok)
    \/ UploadSAdd(p, TRUE)
    \/ UploadSAddDoc(p, TRUE)
    \/ UploadCount(p)
    \/ \E document_key \in {k \in DOMAIN db : db[k].type = "hash"} \cup {"doc:9"} :
          DeleteExists(p, document_key)
    \/ DeleteSRem(p)
    \/ DeleteDel(p)

NextAutoId == AutoIdStep(1)

SpecAutoId == InitAutoId /\ [][NextAutoId]_vars

(***************************************************************************)
(* Claims about the store (C1, C2, C4 under Spec; C3 under                 *)
(* SpecClearSearch).                                                       *)
(***************************************************************************)
Registry == SMembers(db, REGISTRY)
ChunkRecords == {key \in DOMAIN db : db[key].type = "hash"}
DocChunkSets == {key \in DOMAIN db : db[key].type = "set" /\ key # REGISTRY}

\* C1: after any sequence of completed requests, a chunk record exists in the
\* store if and only if its key is in the registry set "documents".
C1_RegistryIffRecord == pc[1] = "idle" => ChunkRecords = Registry

\* C2: after any sequence of completed requests, every key of every
\* per-document set "doc:<id>:chunks" is in the registry set "documents".
C2_DocSetsInRegistry ==
    pc[1] = "idle" => \A key \in DocChunkSets : db[key].members \subseteq Registry

\* C3: a search running while the store is cleared never reads from the registry
\* a key whose record is already deleted.
C3_NoDanglingRead == ret[2].op = "retrieve" => ret[2].missing = {}

\* C4: when clear_all has returned, count() is 0, and a search that follows it
\* returns the empty sequence, whatever the store held before.
C4_ClearInvariant ==
    /\ (pc[1] = "idle" /\ ret[1].op = "clear")
           => ret[1].status = "ok" /\ get_document_count(db) = 0
    /\ (ret[1].op = "retrieve" /\ ret[1].after = "clear" /\ ret[1].embedded)
           => ret[1].status = "ok" /\ ret[1].value = <<>>

\* A search after the clear of a store that held an uploaded document (its
\* per-document set is still there).
C4_Witness ==
    /\ ret[1].op = "retrieve" /\ ret[1].after = "clear" /\ ret[1].embedded
    /\ ret[1].value = <<>>
    /\ get_document_count(db) = 0
    /\ DocChunkSets # {}

(***************************************************************************)
(* SpecSearch: one search over every store within the bounds.  A store is  *)
(* a registry over SearchKeys whose members have a record written by the   *)
(* program (content and embedding) or no record at all, as a concurrent    *)
(* clear or delete leaves them.  SpecSearchCorrupt adds the records only   *)
(* another client of the Redis server can have written: no embedding       *)
(* field, no content field, an embedding that is not JSON, a key that      *)
(* holds a set.                                                            *)
(***************************************************************************)
SearchKeys == {"doc:0", "doc:1", "f:chunk:0"}

WrittenShapes == {"v10", "v11", "w"}
CorruptShapes == {"noembedding", "nocontent", "garbage", "wrongtype"}

ShapeVec(shape) ==
    CASE shape = "v10" -> <<1, 0>>
      [] shape = "v11" -> <<1, 1>>
      [] OTHER -> <<-1, 1>>

ShapeValue(shape) ==
    CASE shape = "noembedding" -> Hash([f \in {"content"} |-> <<"a">>])
      [] shape = "nocontent" -> Hash([f \in {"embedding"} |-> JsonDumps(<<1, 1>>)])
      [] shape = "garbage" ->
             Hash([f \in {"content", "embedding"} |->
                      IF f = "content" THEN <<"a">> ELSE <<"not json">>])
      [] shape = "wrongtype" -> SetOf({"x"})
      [] OTHER ->
             Hash([f \in {"content", "embedding"} |->
                      IF f = "content" THEN <<"a", "b">> ELSE JsonDumps(ShapeVec(shape))])

StoreOf(reg, shapeOf) ==
    [key \in {k \in reg : shapeOf[k] # "missing"} \cup (IF reg = {} THEN {} ELSE {REGISTRY})
        |-> IF key = REGISTRY THEN SetOf(reg) ELSE ShapeValue(shapeOf[key])]

InitStores(shapes) ==
    /\ \E reg \in SUBSET SearchKeys :
          \E shapeOf \in [reg -> shapes \cup {"missing"}] : db = StoreOf(reg, shapeOf)
    /\ pc = [p \in Procs |-> "idle"]
    /\ loc = [p \in Procs |-> NoLoc]
    /\ ret = [p \in Procs |-> NoRet]
    /\ lastOp = "none"
    /\ nops = 0

InitSearch == InitStores(WrittenShapes)
InitSearchCorrupt == InitStores(WrittenShapes \cup CorruptShapes)

NextSearch ==
    \/ \E query \in Queries, embed_ok \in BOOLEAN, k \in 0..MaxK, m \in MinSims :
          /\ ret[1].op = "none"
          /\ RetrieveStart(1, query, embed_ok, k, m)
    \/ \E doc_key \in SearchKeys : RetrieveScan(1, doc_key)

SpecSearch == InitSearch /\ [][NextSearch]_vars
SpecSearchCorrupt == InitSearchCorrupt /\ [][NextSearch]_vars

(***************************************************************************)
(* Claims about the search (checked under SpecSearch, C7 under             *)
(* SpecSearchCorrupt; the store does not change during these runs).        *)
(***************************************************************************)
Searched(r) == r.op = "retrieve" /\ r.embedded

HasReadableEmbedding(key) ==
    /\ key \in DOMAIN db
    /\ db[key].type = "hash"
    /\ "embedding" \in DOMAIN db[key].fields
    /\ db[key].fields["embedding"][1] = "json"

WellFormed(key) == HasReadableEmbedding(key) /\ "content" \in DOMAIN db[key].fields

SimilarityTo(r, key) == cosine_similarity(r.query_embedding, db[key].fields["embedding"][2])

StrictlyGreater(x, y) == x.n * y.d > y.n * x.d

\* The result is the k best of the set Q of keys: as many as min(k, |Q|), each
\* once, each with its content and its similarity, none of Q left out that
\* scores strictly higher than one returned, in non-increasing order.
IsTopKOf(r, Q) ==
    LET v == r.value
    IN  /\ Len(v) = (IF Cardinality(Q) <= r.k THEN Cardinality(Q) ELSE r.k)
        /\ \A i \in 1..Len(v) :
              /\ v[i].key \in Q
              /\ v[i].content = db[v[i].key].fields["content"]
              /\ v[i].similarity = SimilarityTo(r, v[i].key)
        /\ \A i, j \in 1..Len(v) : i # j => v[i].key # v[j].key
        /\ \A i, j \in 1..Len(v) : i < j => ~StrictlyGreater(v[j].similarity, v[i].similarity)
        /\ \A q \in Q \ {v[i].key : i \in 1..Len(v)} :
              \A i \in 1..Len(v) : ~StrictlyGreater(SimilarityTo(r, q), v[i].similarity)

\* C5: the result of a search has at most k entries (the default top-K when k
\* is absent), is ordered by non-increasing similarity, and holds only entries
\* whose similarity is at least min_similarity.
C5_SearchContract ==
    LET r == ret[1]
    IN  Searched(r) =>
            /\ Len(r.value) <= r.k
            /\ \A i, j \in 1..Len(r.value) :
                  i < j => r.value[i].similarity.n * r.value[j].similarity.d
                               >= r.value[j].similarity.n * r.value[i].similarity.d
            /\ \A i \in 1..Len(r.value) :
                  r.value[i].similarity.n * r.min_similarity.d
                      >= r.min_similarity.n * r.value[i].similarity.d

\* Three chunks qualify, k = 2 keeps two of them, of different similarity.
C5_Witness ==
    LET r == ret[1]
    IN  /\ Searched(r) /\ r.status = "ok" /\ r.k = 2 /\ Len(r.value) = 2
        /\ Cardinality({key \in r.doc_keys : WellFormed(key)}) = 3
        /\ \A key \in r.doc_keys : SimGeq(SimilarityTo(r, key), r.min_similarity)
        /\ StrictlyGreater(r.value[1].similarity, r.value[2].similarity)

\* C6: with Q the registered chunks that have a readable embedding and a
\* similarity of at least min_similarity, the search returns exactly
\* min(k, |Q|) entries, all from Q, leaving out no chunk of Q that scores
\* strictly higher than a returned one.
C6_TopK ==
    LET r == ret[1]
        Q == {key \in r.doc_keys :
                 HasReadableEmbedding(key)
                     /\ SimGeq(SimilarityTo(r, key), r.min_similarity)}
    IN  Searched(r) => r.status = "ok" /\ IsTopKOf(r, Q)

\* The best of three qualifying chunks is returned for k = 1; the two others,
\* of lower similarity, are left out.
C6_Witness ==
    LET r == ret[1]
    IN  /\ Searched(r) /\ r.status = "ok" /\ r.k = 1 /\ Len(r.value) = 1
        /\ Cardinality({key \in r.doc_keys : WellFormed(key)}) = 3
        /\ \A key \in r.doc_keys :
              /\ SimGeq(SimilarityTo(r, key), r.min_similarity)
              /\ key # r.value[1].key
                     => StrictlyGreater(r.value[1].similarity, SimilarityTo(r, key))

\* C7: a registered key whose record is missing, lacks the embedding or the
\* content field, holds an embedding that does not parse, or is not a hash, is
\* skipped: the search does not raise, and returns the top k of the well-formed
\* chunks that reach min_similarity.
C7_MalformedSkipped ==
    LET r == ret[1]
        Q == {key \in r.doc_keys :
                 WellFormed(key) /\ SimGeq(SimilarityTo(r, key), r.min_similarity)}
    IN  Searched(r) => r.status = "ok" /\ IsTopKOf(r, Q)

\* A search over a registry with a record lacking its content field, a record
\* with an unparsable embedding and one well-formed chunk, which is returned.
C7_Witness ==
    LET r == ret[1]
    IN  /\ Searched(r) /\ r.status = "ok" /\ Len(r.value) = 1
        /\ Cardinality(r.doc_keys) = 3
        /\ \E k1, k2 \in r.doc_keys :
              /\ HasReadableEmbedding(k1) /\ ~WellFormed(k1)
              /\ SimGeq(SimilarityTo(r, k1), r.min_similarity)
              /\ k2 \in DOMAIN db /\ db[k2].type = "hash"
              /\ "embedding" \in DOMAIN db[k2].fields /\ ~HasReadableEmbedding(k2)

\* C8: a search whose query was embedded returns the empty sequence, without
\* raising, when the registry is empty and when no registered chunk reaches
\* min_similarity.
C8_EmptyResult ==
    LET r == ret[1]
    IN  (Searched(r)
            /\ \A key \in r.doc_keys :
                  HasReadableEmbedding(key)
                      => ~SimGeq(SimilarityTo(r, key), r.min_similarity))
            => r.status = "ok" /\ r.value = <<>>

\* Three stored chunks, none reaching the threshold: the result is empty.
C8_Witness ==
    LET r == ret[1]
    IN  /\ Searched(r) /\ r.status = "ok" /\ r.value = <<>>
        /\ Cardinality({key \in r.doc_keys : WellFormed(key)}) = 3
        /\ \A key \in r.doc_keys : ~SimGeq(SimilarityTo(r, key), r.min_similarity)

(***************************************************************************)
(* SpecChunk: chunk_text as a pure function, applied to every text, size   *)
(* and overlap within the bounds.  range() raises ValueError on a step of  *)
(* 0 before any chunk is produced, so that input yields no result.         *)
(***************************************************************************)
ChunkCall(text, size, overlap) ==
    /\ ret[1].op = "none"
    /\ (IF size = 0 THEN CHUNK_SIZE ELSE size)
         # (IF overlap = 0 THEN CHUNK_OVERLAP ELSE overlap)
    /\ ret' = [ret EXCEPT ![1] = [op |-> "chunk_text", text |-> text, size |-> size,
                                  overlap |-> overlap,
                                  value |-> chunk_text(text, size, overlap)]]
    /\ UNCHANGED <<db, pc, loc, lastOp, nops>>

NextChunk ==
    \E text \in TextsUpTo(MaxTextLen), size \in 0..MaxChunkSize,
       overlap \in 0..MaxChunkSize : ChunkCall(text, size, overlap)

SpecChunk == InitCommon /\ [][NextChunk]_vars

(***************************************************************************)
(* Claims about chunk_text (checked under SpecChunk).                      *)
(***************************************************************************)
ChunkArgsValid(r) == r.op = "chunk_text" /\ 0 < r.overlap /\ r.overlap < r.size

NonBlankText(t) == \E j \in 1..Len(t) : t[j] \notin Whitespace

\* C9 as stated: a text that is not whitespace-only and strictly shorter than
\* size yields exactly one chunk, the whole text.
C9_ShortTextOneChunk ==
    LET r == ret[1]
    IN  (ChunkArgsValid(r) /\ NonBlankText(r.text) /\ Len(r.text) < r.size)
            => r.value = <<r.text>>

\* C9 amended: a text that is not whitespace-only and shorter than size yields
\* exactly one chunk, the whole text, if and only if nothing but whitespace
\* lies at or beyond offset size - overlap; in particular whenever
\* len(text) <= size - overlap.
C9_ShortTextOneChunkAmended ==
    LET r == ret[1]
        step == r.size - r.overlap
    IN  (ChunkArgsValid(r) /\ NonBlankText(r.text) /\ Len(r.text) < r.size)
            => /\ (r.value = <<r.text>>)
                    <=> (\A j \in (step + 1)..Len(r.text) : r.text[j] \in Whitespace)
               /\ (Len(r.text) <= step => r.value = <<r.text>>)

C9_Witness ==
    LET r == ret[1]
    IN  /\ ChunkArgsValid(r) /\ NonBlankText(r.text)
        /\ Len(r.text) = 2 /\ r.size = 4 /\ r.overlap = 2
        /\ r.value = <<r.text>>

\* C10: for 0 < overlap < size the chunks are, in order of start offset, exactly
\* the windows text[i : i+size], i a multiple of size - overlap below len(text),
\* whose content is not blank; each has between 1 and size characters, and a
\* blank text yields no chunk.
C10_SlidingWindows ==
    LET r == ret[1]
        n == Len(r.text)
        step == r.size - r.overlap
        WinEnd(i) == IF i + r.size <= n THEN i + r.size ELSE n
        W == {i \in 0..(n - 1) :
                 i % step = 0 /\ \E j \in (i + 1)..WinEnd(i) : r.text[j] \notin Whitespace}
        Nth(m) == CHOOSE i \in W : Cardinality({v \in W : v < i}) = m - 1
    IN  ChunkArgsValid(r) =>
            /\ Len(r.value) = Cardinality(W)
            /\ \A m \in 1..Len(r.value) :
                   /\ Len(r.value[m]) = WinEnd(Nth(m)) - Nth(m)
                   /\ \A j \in 1..Len(r.value[m]) : r.value[m][j] = r.text[Nth(m) + j]
                   /\ Len(r.value[m]) >= 1 /\ Len(r.value[m]) <= r.size
            /\ (~NonBlankText(r.text) => r.value = <<>>)

\* A text of four characters cut into three windows, one of them blank and dropped.
C10_Witness ==
    LET r == ret[1]
    IN  /\ ChunkArgsValid(r) /\ r.size = 2 /\ r.overlap = 1
        /\ r.text = <<"a", " ", " ", "b">>
        /\ r.value = << <<"a", " ">>, <<" ", "b">>, <<"b">> >>

\* chunk[n:]: the chunk without its first n characters.
DropLeading(chunk, n) == IF n >= Len(chunk) THEN <<>> ELSE SubSeq(chunk, n + 1, Len(chunk))

\* The first chunk followed by every later chunk without its leading overlap
\* characters.
RECURSIVE ConcatOverlapRemoved(_, _)
ConcatOverlapRemoved(chunks, overlap) ==
    IF chunks = <<>> THEN <<>>
    ELSE IF Len(chunks) = 1 THEN chunks[1]
    ELSE ConcatOverlapRemoved(SubSeq(chunks, 1, Len(chunks) - 1), overlap)
             \o DropLeading(chunks[Len(chunks)], overlap)

\* No window text[i : i+size], i a multiple of size - overlap below len(text),
\* is blank.
NoWindowDropped(r) ==
    LET n == Len(r.text)
        step == r.size - r.overlap
    IN  \A i \in 0..(n - 1) :
            i % step = 0 =>
                \E j \in (i + 1)..Min(i + r.size, n) : r.text[j] \notin Whitespace

\* C11: for 0 < overlap < size, when no window was dropped for emptiness, the
\* first chunk followed by every later chunk without its leading overlap
\* characters is the text: no character is lost or duplicated.
C11_ConcatReproducesText ==
    LET r == ret[1]
    IN  (ChunkArgsValid(r) /\ NoWindowDropped(r))
            => ConcatOverlapRemoved(r.value, r.overlap) = r.text

\* Four windows, the last two clipped by the end of the text.
C11_Witness ==
    LET r == ret[1]
    IN  /\ ChunkArgsValid(r) /\ NoWindowDropped(r)
        /\ r.text = <<"a", "b", "a", "b">> /\ r.size = 3 /\ r.overlap = 2
        /\ Len(r.value) = 4
        /\ ConcatOverlapRemoved(r.value, r.overlap) = r.text

(***************************************************************************)
(* Claims about load_and_store_documents (C12, C13 under Spec; C14 under   *)
(* SpecStoreFail).                                                         *)
(***************************************************************************)
LoadReturned == pc[1] = "idle" /\ ret[1].op = "load"

BlankFile(file) == file.exists /\ Strip(file.content) = <<>>

\* C12: a load of a missing file fails with CorpusNotFound; a load of a file
\* that is present but blank fails with EmptyCorpus and stores no chunk.
C12_LoadErrors ==
    LoadReturned =>
        /\ (~ret[1].file.exists => ret[1].raised = "CorpusNotFound")
        /\ (BlankFile(ret[1].file)
               => ret[1].raised = "EmptyCorpus" /\ ret[1].stored_keys = {})

\* C13: a load of a non-blank file fails with CorpusLoadError if and only if
\* it stored no chunk.
C13_LoadErrorIffNothingStored ==
    (LoadReturned /\ ret[1].file.exists /\ ~BlankFile(ret[1].file))
        => (ret[1].raised = "CorpusLoadError" <=> ret[1].stored_keys = {})

\* The record load_and_store_documents writes for a chunk.
CorpusRecord(chunk) ==
    Hash([f \in {"content", "embedding"} |->
             IF f = "content" THEN chunk ELSE JsonDumps(get_embeddings(chunk))])

\* The chunks of the running load that fail in this step.
FailedInStep ==
    IF pc[1] \notin {"load_hset", "load_sadd"} THEN {}
    ELSE (IF pc'[1] = "idle" THEN ret'[1].failed ELSE loc'[1].failed) \ loc[1].failed

\* C14: a load skips only the chunks whose embedding or store fails.  When it
\* returns, every other chunk j is stored under doc:<j>, with its content and
\* embedding, and registered; and a chunk that fails leaves under its key
\* doc:<i> the record and registry entry that were there before the load came
\* to it, nothing written by this load.
C14_SkipOnlyFailedChunk ==
    /\ [](LoadReturned =>
             \A j \in 0..(Len(ret[1].chunks) - 1) :
                 j \notin ret[1].failed =>
                     /\ Exists(db, CorpusKey(j))
                     /\ db[CorpusKey(j)] = CorpusRecord(ret[1].chunks[j + 1])
                     /\ CorpusKey(j) \in Registry)
    /\ [][\A i \in FailedInStep :
              KeyState(db', CorpusKey(i))
                  = (IF pc[1] = "load_hset" THEN KeyState(db, CorpusKey(i))
                     ELSE loc[1].prior)]_vars

(***************************************************************************)
(* Claims about upload (C15, C16, C17 under Spec).                         *)
(***************************************************************************)
UploadReturned == pc[1] = "idle" /\ ret[1].op = "upload"

\* The keys <id>:chunk:0 .. <id>:chunk:n-1.
ChunkKeysOf(document_id, n) == {ChunkKey(document_id, i) : i \in 0..(n - 1)}

\* C15: when an upload of N chunks under document id d has returned, whatever
\* the store held before, the set doc:<d>:chunks is exactly
\* {d:chunk:0, .., d:chunk:N-1} and all of these keys are in the registry.
C15_DocSetExactlyUploaded ==
    LET r == ret[1]
    IN  (UploadReturned /\ r.status = "ok")
            => /\ SMembers(db, DocChunksKey(r.document_id))
                     = ChunkKeysOf(r.document_id, Len(r.chunks))
               /\ ChunkKeysOf(r.document_id, Len(r.chunks)) \subseteq Registry

\* C16: an upload that returns reports chunks_created equal to the number of
\* chunks that call stored, whatever the store held before.
C16_ChunksCreatedIsStored ==
    LET r == ret[1]
    IN  (UploadReturned /\ r.status = "ok") => r.chunks_created = r.stored

\* C17: an upload in which the embedding or store of one chunk fails still
\* completes: the failure is caught, the other chunks are stored and
\* registered, and the response reports the chunks that were stored.
C17_UploadSkipsFailedChunk ==
    LET r == ret[1]
    IN  (UploadReturned /\ r.chunks # <<>>)
            => /\ r.status = "ok"
               /\ \A j \in 0..(Len(r.chunks) - 1) :
                      j \notin r.failed =>
                          /\ Exists(db, ChunkKey(r.document_id, j))
                          /\ ChunkKey(r.document_id, j) \in Registry
               /\ r.chunks_created = Len(r.chunks) - Cardinality(r.failed)

(***************************************************************************)
(* Claims about delete_document (C18 under Spec).                          *)
(***************************************************************************)
DeleteReturned == pc[1] = "idle" /\ ret[1].op = "delete"

\* C18: delete(key) on a key that holds a stored chunk removes the chunk
\* record and its registry entry and reports success; delete(key) on any
\* other key reports NotFound.
C18_DeleteChunkOrNotFound ==
    LET r == ret[1]
    IN  DeleteReturned =>
            /\ r.was_chunk => /\ r.status = "ok"
                              /\ ~Exists(db, r.key)
                              /\ r.key \notin Registry
            /\ ~r.was_chunk => r.status = "NotFound"

(***************************************************************************)
(* Claims about chunk keys (C19 under Spec, C20 under SpecAutoId).         *)
(***************************************************************************)
\* The step is an HSET of load_and_store_documents or upload_and_store_document.
WritesChunk == pc[1] \in {"load_hset", "upload_hset"} /\ db' # db

\* C19: a chunk is immutable once stored: no step of a load or an upload
\* changes the content or the embedding of a record that is in the store.
C19_ChunkImmutable ==
    [][WritesChunk =>
           \A key \in ChunkRecords :
               /\ db'[key].fields["content"] = db[key].fields["content"]
               /\ db'[key].fields["embedding"] = db[key].fields["embedding"]]_vars

\* C20: chunk keys are unique: an upload made without a document_id never
\* writes a chunk key that another upload has written and that is still in
\* the store, so it overwrites no chunk of a different upload.
C20_AutoIdKeysUnique ==
    [][(pc[1] = "upload_hset" /\ loc[1].auto /\ db' # db)
           => ~Exists(db, ChunkKey(loc[1].document_id, loc[1].idx))]_vars

(***************************************************************************)
(* Claims about the records the writers leave (C21 under SpecStoreFail,    *)
(* C22 under SpecStoreFail).                                               *)
(***************************************************************************)
\* A chunk record is fully written: it has its content and embedding, its
\* key is in the registry and, for an uploaded chunk, in its document's set.
FullyWritten(key) ==
    LET fields == db[key].fields
    IN  /\ {"content", "embedding"} \subseteq DOMAIN fields
        /\ key \in Registry
        /\ "document_id" \in DOMAIN fields
               => key \in SMembers(db, DocChunksKey(fields["document_id"]))

\* C21: writing one chunk is all-or-nothing: when a load or an upload has
\* ended, by returning or by failing between two of its store round trips,
\* every chunk record in the store is fully written.
C21_ChunkAllOrNothing ==
    (pc[1] = "idle" /\ ret[1].op \in {"load", "upload"})
        => \A key \in ChunkRecords : FullyWritten(key)

\* C22: an embedding failure never produces a stored chunk: in every state
\* every chunk record holds a content field and an embedding field, and the
\* embedding is the vector the embedding call returns for that content.
C22_RecordsHoldTheirEmbedding ==
    \A key \in ChunkRecords :
        LET fields == db[key].fields
        IN  /\ {"content", "embedding"} \subseteq DOMAIN fields
            /\ fields["embedding"] = JsonDumps(get_embeddings(fields["content"]))

\* A load of two chunks has returned: the embedding of the first failed and
\* it has no record, the second is stored.
C22_Witness ==
    /\ LoadReturned /\ ret[1].failed = {0} /\ ret[1].stored_keys = {CorpusKey(1)}
    /\ ~Exists(db, CorpusKey(0)) /\ Exists(db, CorpusKey(1))

(***************************************************************************)
(* Claims about repeated writes (C23 under Spec).                          *)
(***************************************************************************)
\* A load or an upload is running that repeats the request before it.
RepeatRunning == loc[1].op \in {"load", "upload"} /\ loc[1].repeat

\* C23: put is idempotent on the same key: a load of the same file (without
\* clear_existing) or an upload of the same content under the same
\* document_id, repeated right after a first call that stored every chunk,
\* leaves the records, the registry and the per-document sets as the first
\* call left them: none of its steps changes the store.
C23_RepeatLeavesStore == [][RepeatRunning => db' = db]_vars

\* The repeated upload of a two-chunk document is at its last SADD.
C23_Witness ==
    /\ pc[1] = "upload_sadd_doc" /\ loc[1].repeat
    /\ Len(loc[1].chunks) = 2 /\ loc[1].idx = 1
    /\ SMembers(db, DocChunksKey(loc[1].document_id))
           = ChunkKeysOf(loc[1].document_id, 2)

(***************************************************************************)
(* Claims about reload_documents (C24 under Spec).                         *)
(***************************************************************************)
ReloadReturned == pc[1] = "idle" /\ ret[1].op = "reload"

\* C24: reload fails with the not-found error when the configured file is
\* absent, and otherwise returns document_count equal to the cardinality of
\* the registry after the reload.
C24_ReloadCount ==
    ReloadReturned =>
        /\ ~ret[1].file.exists => ret[1].status = "404"
        /\ ret[1].file.exists
               => /\ ret[1].status = "ok"
                  /\ ret[1].document_count = Cardinality(Registry)

\* A reload of a two-chunk file has returned, with one chunk failed.
C24_Witness ==
    /\ ReloadReturned /\ ret[1].status = "ok"
    /\ ret[1].file.content = <<"a", "b", "b">>
    /\ ret[1].document_count = 1

(***************************************************************************)
(* Claims about the order of the clear (C25 under Spec).                   *)
(***************************************************************************)
\* The clear of clear_all_documents or of a load with clear_existing is
\* starting, is at its delete of the records, is at its delete of the registry.
ClearReads == pc[1] = "idle" /\ pc'[1] \in {"clear_delete", "load_clear_delete"}
ClearAtRecords == pc[1] \in {"clear_delete", "load_clear_delete"}
ClearAtRegistry == pc[1] \in {"clear_registry", "load_clear_registry"}

\* C25: a clear first reads the registry, then deletes every record the
\* registry referenced, leaving the registry set in place, and only after
\* that deletes the registry set.
C25_ClearOrder ==
    [][/\ ClearReads
           => db' = db /\ loc'[1].doc_keys = SMembers(db, REGISTRY)
       /\ ClearAtRecords
           => /\ \A key \in loc[1].doc_keys : ~Exists(db', key)
              /\ Exists(db', REGISTRY) = Exists(db, REGISTRY)
              /\ SMembers(db', REGISTRY) = SMembers(db, REGISTRY)
       /\ ClearAtRegistry
           => /\ \A key \in loc[1].doc_keys : ~Exists(db, key)
              /\ ~Exists(db', REGISTRY)]_vars

\* The records of a registry of two keys are deleted, the registry set is
\* still there.
C25_Witness ==
    /\ pc[1] = "clear_registry"
    /\ Cardinality(loc[1].doc_keys) = 2
    /\ SMembers(db, REGISTRY) = loc[1].doc_keys
    /\ \A key \in loc[1].doc_keys : ~Exists(db, key)

(***************************************************************************)
(* SpecCosine: one pair of calls cosine_similarity(a, b) and               *)
(* cosine_similarity(b, a) on vectors of one or two components, each       *)
(* between -MaxComponent and MaxComponent.                                 *)
(***************************************************************************)
Vectors ==
    UNION {[1..n -> (0 - MaxComponent)..MaxComponent] : n \in 1..2}

CosineCall(a, b) ==
    /\ ret[1].op = "none"
    /\ ret' = [ret EXCEPT ![1] = [op |-> "cosine_similarity", a |-> a, b |-> b,
                                  value |-> cosine_similarity(a, b),
                                  swapped |-> cosine_similarity(b, a)]]
    /\ UNCHANGED <<db, pc, loc, lastOp, nops>>

NextCosine == \E a \in Vectors, b \in Vectors : CosineCall(a, b)

SpecCosine == InitCommon /\ [][NextCosine]_vars

(***************************************************************************)
(* Claims about cosine_similarity (C26 under SpecCosine).                  *)
(***************************************************************************)
\* A similarity is the number 0, is the number 1, equals another.
SimIsZero(x) == x.d > 0 /\ x.n = 0
SimIsOne(x) == x.d > 0 /\ x.n = x.d
SimEq(x, y) == x.d > 0 /\ y.d > 0 /\ x.n * y.d = y.n * x.d

ZeroVector(a) == \A i \in 1..Len(a) : a[i] = 0

C27_DeleteFrame ==
    [][/\ loc[1].op = "delete"
           => \A key \in ChunkRecords \ {loc[1].key} :
                  KeyState(db', key) = KeyState(db, key)
       /\ (pc'[1] = "idle" /\ ret'[1].op = "delete" /\ ret'[1].status = "NotFound")
           => db' = db]_vars

\* The load that is running, or that returns in this step, stores nothing
\* because its file is missing or blank.
LoadsNothing(l) == l.op = "load" /\ (~l.file.exists \/ BlankFile(l.file))

\* C28: a load that stores nothing because the file is missing or blank
\* leaves the records, the registry and the per-document sets as they were,
\* also with clear_existing: none of its steps changes the store.
C28_EmptyLoadFrame ==
    [][(\/ LoadsNothing(loc[1])
        \/ pc[1] = "idle" /\ pc'[1] = "idle" /\ LoadsNothing(ret'[1]))
           => db' = db]_vars

(***************************************************************************)
(* SpecClearWrite: process 1 uploads and loads, one request at a time,     *)
(* while process 2 clears; the two are clients of the same Redis server    *)
(* (two server processes, or a handler and the thread pool) and interleave *)
(* at every round trip.                                                    *)
(***************************************************************************)
StoreStep(p) ==
    \/ \E content \in Contents, document_id \in DocIds : UploadStart(p, content, document_id)
    \/ \E embed_ok \in BOOLEAN : UploadHSet(p, embed_ok)
    \/ UploadSAdd(p, TRUE)
    \/ UploadSAddDoc(p, TRUE)
    \/ UploadCount(p)
    \/ \E file \in Files : LoadStart(p, file, FALSE)
    \/ \E embed_ok \in BOOLEAN : LoadHSet(p, embed_ok)
    \/ LoadSAdd(p, TRUE)

ClearStep(p) ==
    \/ ClearSMembers(p)
    \/ ClearDelete(p)
    \/ ClearRegistry(p)

NextClearWrite == StoreStep(1) \/ ClearStep(2)

SpecClearWrite == Init /\ [][NextClearWrite]_vars

\* C29: when a clear has run concurrently with an upload or a load and both
\* have finished, no orphan remains: every chunk record has its key in the
\* registry and every registry key has a record.
C29_NoOrphanAfterClear ==
    (/\ pc[1] = "idle" /\ pc[2] = "idle"
     /\ ret[1].op \in {"upload", "load"} /\ ret[2].op = "clear")
        => ChunkRecords = Registry

(***************************************************************************)
(* Claims about a load that clears first (C30 under Spec).                 *)
(***************************************************************************)
\* A load with clear_existing of a non-blank file has returned, called
\* directly or by reload_documents.
ClearingLoadReturned ==
    /\ pc[1] = "idle"
    /\ \/ ret[1].op = "load" /\ ret[1].clear_existing /\ ret[1].status = "ok"
       \/ ret[1].op = "reload" /\ ret[1].status = "ok" /\ ret[1].load_status = "ok"

\* C30: when a load with clear_existing of a non-blank file has returned,
\* with no other writer running, the registry is exactly the set of keys
\* doc:<i> this load stored, count() is their number, and no chunk record
\* from before the load remains in the store, whatever the store held before.
C30_ClearingLoadReplacesStore ==
    ClearingLoadReturned =>
        /\ Registry = ret[1].stored_keys
        /\ get_document_count(db) = Cardinality(ret[1].stored_keys)
        /\ ChunkRecords \subseteq ret[1].stored_keys

====
